---- MODULE Spec2Model ----
(***************************************************************************)
(* Model of the FHERegisTestnet dApp:                                      *)
(*   - the FHERegisTestnet contract (contracts/FHERegisTestnet.sol),       *)
(*   - the FHE co-processor it calls (input verification, ACL, decryption) *)
(*     as an ideal handle-to-cleartext map,                                *)
(*   - the registration hook useFHERegisTestnetWagmi and the component     *)
(*     FHERegisTestnet.tsx that drive it from the browser.                 *)
(***************************************************************************)
EXTENDS Integers, Sequences, FiniteSets, TLC

\* ---------------------------------------------------------------- bounds
NumAddr == 2
MaxHandles == 2
MaxClear == 2
MaxEmail == 1

Addresses == 1..NumAddr
\* address(this): the contract's own address, distinct from every account
Contract == 0
\* ethers.ZeroHash: the value of an unset euint256 mapping slot
ZeroHash == 0
Handles == 1..MaxHandles
Clears == 1..MaxClear
\* the emails, as integers, typed into the browser client
Emails == 1..MaxEmail
\* result of a decryption request the ACL refuses
Denied == -1
\* the value of a wagmi query that has not returned data
Undefined == -2

VARIABLES
    \* contract storage
    encryptedEmails, registered, totalRegistered,
    \* FHE co-processor: ciphertexts created so far (handle = index), ACL
    inputs, acl,
    \* observation of the last mined registerEmail transaction
    lastTx,
    \* history: has the address ever had a successful call / its last cleartext
    everCalled, lastClear,
    \* wallet and SDK as seen by the last render
    account, hasSigner, instance,
    \* hook state: React state, and the value captured by the rendered closure
    isProcessing, renderedIsProcessing, message, myEmailHandle,
    \* how the last run of the hook's registerEmail ended in this session
    lastEnd,
    \* decryption hook: cleartexts by handle, and the request in flight
    results, decrypting,
    \* component state
    submitted, decryptedEmail,
    \* runs of the hook's registerEmail that have not finished
    calls,
    \* the form's text and what handleSubmit and the decryption effect make
    \* of it: the validation error, the integer, the decoded string
    email, error, emailAsNumber, emailStr, codecPc

contractVars == <<encryptedEmails, registered, totalRegistered>>
fheVars == <<inputs, acl>>
historyVars == <<lastTx, everCalled, lastClear>>
walletVars == <<account, hasSigner, instance>>
hookVars == <<isProcessing, renderedIsProcessing, message, myEmailHandle, lastEnd>>
decryptVars == <<results, decrypting, decryptedEmail>>
clientVars == <<walletVars, hookVars, submitted, calls, decryptVars>>
codecVars == <<email, error, emailAsNumber, emailStr, codecPc>>
vars == <<contractVars, fheVars, historyVars, clientVars, codecVars>>

\* ------------------------------------------------------ FHE co-processor
\* createEncryptedInput(contract, user).add256(clear).encrypt(): a new
\* ciphertext whose proof binds it to the user it was encrypted for
createEncryptedInput(ins, user, clear) ==
    Append(ins, [clear |-> clear, user |-> user])

fromExternal_noVerify(ins, h, sender) == h \in 1..Len(ins)
\* FHE.fromExternal: the proof is accepted only for a ciphertext that exists
\* and was encrypted for msg.sender; otherwise the call reverts. The handle
\* it returns is the handle that was passed in.
fromExternal(ins, h, sender) ==
    /\ h \in 1..Len(ins)
    /\ ins[h].user = sender

allow_toAll(a, h, who) == a \cup {<<h, w>> : w \in Addresses}
\* FHE.allow(handle, account)
allow(a, h, who) == a \cup {<<h, who>>}

\* FHE.allowThis(handle)
allowThis(a, h) == a \cup {<<h, Contract>>}

\* user decryption of a handle: needs the user and the contract on the ACL
userDecryptEuint(ins, a, h, user) ==
    IF h \in 1..Len(ins) /\ <<h, user>> \in a /\ <<h, Contract>> \in a
    THEN ins[h].clear
    ELSE Denied

\* ------------------------------------------------------------- contract
storeEmail_keepFirst(emails, sender, h) ==
    IF emails[sender] = ZeroHash THEN [emails EXCEPT ![sender] = h] ELSE emails
storeEmail_allSlots(emails, sender, h) == [a \in Addresses |-> h]
\* encryptedEmails[msg.sender] = storedEmail
storeEmail(emails, sender, h) == [emails EXCEPT ![sender] = h]

markRegistered_toggle(reg, sender) == [reg EXCEPT ![sender] = ~reg[sender]]
markRegistered_all(reg, sender) == [a \in Addresses |-> TRUE]
markRegistered_noop(reg, sender) == reg
\* registered[msg.sender] = true
markRegistered(reg, sender) == [reg EXCEPT ![sender] = TRUE]

incrementIfFirst_always(total, firstTime) == total + 1
incrementIfFirst_never(total, firstTime) == total
\* if (firstTime) totalRegistered += 1
\* (uint256 with checked arithmetic; the counter is at most the number of
\* addresses, so it cannot wrap)
incrementIfFirst(total, firstTime) == IF firstTime THEN total + 1 ELSE total

getTotalRegistered == totalRegistered
hasRegistered(user) == registered[user]
encryptedEmailOf(user) == encryptedEmails[user]

\* does the transaction go through: enough gas, and the proof is accepted
succeeds(sender, h, gasOk) == gasOk /\ fromExternal(inputs, h, sender)

\* One registerEmail transaction from sender with ciphertext handle h.
\* gasOk = FALSE is a transaction that runs out of gas; it reverts like a
\* failed proof verification and leaves storage and ACL untouched.
registerEmail(sender, h, gasOk) ==
    LET firstTime == ~registered[sender]
    IN  IF succeeds(sender, h, gasOk)
        THEN /\ encryptedEmails' = storeEmail(encryptedEmails, sender, h)
             /\ registered' = markRegistered(registered, sender)
             /\ acl' = allowThis(allow(acl, h, sender), h)
             /\ totalRegistered' = incrementIfFirst(totalRegistered, firstTime)
        ELSE UNCHANGED <<contractVars, acl>>

\* what an observer of the chain records of that transaction: its receipt,
\* who has had a successful call, and the cleartext each caller last submitted
observeTx(sender, h, gasOk) ==
    IF succeeds(sender, h, gasOk)
    THEN /\ everCalled' = [everCalled EXCEPT ![sender] = TRUE]
         /\ lastClear' = [lastClear EXCEPT ![sender] = inputs[h].clear]
         /\ lastTx' = [seq |-> 1 - lastTx.seq, sender |-> sender,
                       handle |-> h, status |-> "ok"]
    ELSE /\ UNCHANGED <<everCalled, lastClear>>
         /\ lastTx' = [seq |-> 1 - lastTx.seq, sender |-> sender,
                       handle |-> h, status |-> "reverted"]

\* ------------------------------------------------- direct users (tests)
\* fhevm.createEncryptedInput(contractAddress, user).add256(clear).encrypt()
EncryptInput(user, clear) ==
    /\ Len(inputs) < MaxHandles
    /\ inputs' = createEncryptedInput(inputs, user, clear)
    /\ UNCHANGED <<contractVars, acl, historyVars, clientVars, codecVars>>

\* contract.connect(sender).registerEmail(handle, inputProof)
DirectRegisterEmail(sender, h, gasOk) ==
    /\ h \in 1..Len(inputs)
    /\ registerEmail(sender, h, gasOk)
    /\ observeTx(sender, h, gasOk)
    /\ UNCHANGED <<inputs, clientVars, codecVars>>

\* ---------------------------------------------------------------- client
\* a registerEmail transaction of another session or caller is mined while
\* the browser client runs
NetworkTx(sender, h, gasOk) ==
    /\ h \in 1..Len(inputs)
    /\ registerEmail(sender, h, gasOk)
    /\ UNCHANGED <<inputs, historyVars, clientVars, codecVars>>

hasContract == TRUE

\* canRegister = hasContract && instance && hasSigner && !isProcessing
canRegister(isProc) == hasContract /\ instance /\ hasSigner /\ ~isProc

setIsProcessing_noop(cur, v) == cur
\* setIsProcessing(v)
setIsProcessing(cur, v) == v

\* the hook's registerEmail entry test, on the values the rendered closure holds
registerEmailEntry(isProc, n) == ~(isProc \/ ~canRegister(isProc) \/ n <= 0)

\* isRegistered: the handle read from the chain is set and not the zero hash
isRegistered(handle) == handle # Undefined /\ handle # ZeroHash

RemoveAt(s, i) == SubSeq(s, 1, i - 1) \o SubSeq(s, i + 1, Len(s))

\* the deployment info the hook may be given: an ABI with or without the
\* registerEmail function
Abis == SUBSET {"registerEmail"}

\* getEncryptionMethodFor("registerEmail"): the builder method for the first
\* input (externalEuint256), or none when the ABI lacks the function
getEncryptionMethodFor(abi) ==
    IF "registerEmail" \in abi THEN "add256" ELSE "none"

\* getContract("write"): a contract bound to the signer, if there is one
getContract(signer) == hasContract /\ signer

\* the ways a run of registerEmail ends without a confirmed transaction
Failures == {"noMethod", "encUndefined", "noSigner", "threw"}

endMessage_empty(how, cur) == ""
\* the status message a run of registerEmail ends with
endMessage(how, cur) ==
    CASE how = "noMethod" -> "Function ABI not found for registerEmail"
      [] how = "encUndefined" -> "Encryption failed"
      [] how = "noSigner" -> "Signer not available"
      [] how = "threw" -> "registerEmail() failed"
      [] OTHER -> cur

afterReceipt_ignoreFailure(ok) == "refetch"
\* await tx.wait(): on a receipt the run goes on to the refetch, a reverted
\* transaction throws into the catch block
afterReceipt(ok) == IF ok THEN "refetch" ELSE "threw"

\* results of the decryption hook before any decryption: no handle has a
\* cleartext
NoResults == [h \in Handles |-> Undefined]
\* decryptedEmail = null
NoEmail == 0

\* clearEmail?.clear: nothing without a handle, 0 for the zero hash, else the
\* cleartext the decryption hook holds for the handle
clear(handle, res) ==
    IF handle = Undefined THEN Undefined
    ELSE IF handle = ZeroHash THEN 0
    ELSE res[handle]

\* isDecrypted: the decryption hook holds a non-zero cleartext for the handle
isDecrypted(handle, res) ==
    /\ isRegistered(handle)
    /\ res[handle] # Undefined
    /\ res[handle] # 0

\* the component's effect on [isDecrypted, clear]: the email decoded from the
\* cleartext replaces decryptedEmail; otherwise decryptedEmail is kept
watchDecryption(handle, res, cur) ==
    IF isDecrypted(handle, res) /\ clear(handle, res) \notin {Undefined, 0}
    THEN clear(handle, res)
    ELSE cur

\* canDecrypt: instance, signer, a request for a non-zero handle, and no
\* decryption in flight
canDecrypt ==
    instance /\ hasSigner /\ isRegistered(myEmailHandle) /\ decrypting = <<>>

\* The user clicks "Decrypt Email": the decryption of the current handle is
\* requested with the signer's authorization
handleDecrypt ==
    /\ submitted
    /\ canDecrypt
    /\ decrypting' = <<myEmailHandle, account>>
    /\ UNCHANGED <<contractVars, fheVars, historyVars, codecVars, walletVars, hookVars,
                   submitted, calls, results, decryptedEmail>>

\* the decryption returns: the cleartext is cached under the handle it was
\* requested for, unless the ACL refuses the signer of the request
DecryptDone ==
    /\ decrypting # <<>>
    /\ decrypting' = <<>>
    /\ LET c == userDecryptEuint(inputs, acl, decrypting[1], decrypting[2])
       IN  IF c = Denied
           THEN /\ message' = "Decryption failed"
                /\ UNCHANGED <<results, decryptedEmail>>
           ELSE /\ results' = [results EXCEPT ![decrypting[1]] = c]
                /\ decryptedEmail' = watchDecryption(myEmailHandle, results', decryptedEmail)
                /\ UNCHANGED message
    /\ UNCHANGED <<contractVars, fheVars, historyVars, codecVars, walletVars, isProcessing,
                   renderedIsProcessing, myEmailHandle, lastEnd, submitted, calls>>

\* The user clicks "Submit Email" with a valid email encoded as n.
\* A click is a discrete event: React commits the state set in its handler
\* before the next event, so the rendered closure follows at once.
handleSubmit(n, abi) ==
    /\ UNCHANGED decryptVars
    /\ ~submitted
    /\ ~renderedIsProcessing
    /\ IF ~registerEmailEntry(renderedIsProcessing, n)
       THEN \* registerEmail returns at once; handleSubmit sets submitted
            /\ submitted' = TRUE
            /\ lastEnd' = "skipped"
            /\ UNCHANGED <<isProcessing, renderedIsProcessing, message, calls>>
       ELSE IF getEncryptionMethodFor(abi) = "none"
       THEN \* no method: the message is set and finally runs in the same event
            /\ isProcessing' = setIsProcessing(setIsProcessing(isProcessing, TRUE), FALSE)
            /\ renderedIsProcessing' = setIsProcessing(setIsProcessing(isProcessing, TRUE), FALSE)
            /\ message' = endMessage("noMethod", message)
            /\ lastEnd' = "noMethod"
            /\ submitted' = TRUE
            /\ UNCHANGED calls
       ELSE /\ isProcessing' = setIsProcessing(isProcessing, TRUE)
            /\ renderedIsProcessing' = setIsProcessing(isProcessing, TRUE)
            /\ message' = "Encrypting and registering email..."
            /\ calls' = Append(calls, [pc |-> "encrypt", n |-> n, user |-> account,
                                       signer |-> hasSigner, h |-> ZeroHash,
                                       encs |-> 0, txs |-> 0])
            /\ UNCHANGED <<submitted, lastEnd>>
    /\ UNCHANGED <<contractVars, fheVars, historyVars, codecVars, walletVars, myEmailHandle>>

Finish_noReset(i, how) ==
    /\ message' = endMessage(how, message)
    /\ lastEnd' = how
    /\ calls' = RemoveAt(calls, i)
    /\ submitted' = TRUE
    /\ UNCHANGED <<isProcessing, renderedIsProcessing>>
\* a run of registerEmail ends: finally { setIsProcessing(false) }, then
\* handleSubmit resumes and sets submitted
Finish(i, how) ==
    /\ isProcessing' = setIsProcessing(isProcessing, FALSE)
    /\ message' = endMessage(how, message)
    /\ lastEnd' = how
    /\ calls' = RemoveAt(calls, i)
    /\ submitted' = TRUE
    /\ UNCHANGED renderedIsProcessing

\* await encryptWith(...) returns a ciphertext; with a write contract the
\* transaction is handed to the wallet
EncryptDone(i) ==
    /\ UNCHANGED decryptVars
    /\ i \in DOMAIN calls
    /\ calls[i].pc = "encrypt"
    /\ Len(inputs) < MaxHandles
    /\ inputs' = createEncryptedInput(inputs, calls[i].user, calls[i].n)
    /\ IF getContract(calls[i].signer)
       THEN /\ calls' = [calls EXCEPT ![i].pc = "send", ![i].h = Len(inputs) + 1,
                                      ![i].encs = @ + 1]
            /\ UNCHANGED <<hookVars, submitted>>
       ELSE /\ Finish(i, "noSigner")
            /\ UNCHANGED myEmailHandle
    /\ UNCHANGED <<contractVars, acl, historyVars, codecVars, walletVars>>

\* await encryptWith(...) returns undefined, or throws
EncryptFail(i, how) ==
    /\ UNCHANGED decryptVars
    /\ i \in DOMAIN calls
    /\ calls[i].pc = "encrypt"
    /\ how \in {"encUndefined", "threw"}
    /\ Finish(i, how)
    /\ UNCHANGED <<contractVars, fheVars, historyVars, codecVars, walletVars, myEmailHandle>>

\* await writeContract.registerEmail(...) resolves: the transaction is pending
TxSent(i) ==
    /\ UNCHANGED decryptVars
    /\ i \in DOMAIN calls
    /\ calls[i].pc = "send"
    /\ calls' = [calls EXCEPT ![i].pc = "wait", ![i].txs = @ + 1]
    /\ message' = "Waiting for confirmation..."
    /\ UNCHANGED <<contractVars, fheVars, historyVars, codecVars, walletVars,
                   isProcessing, renderedIsProcessing, myEmailHandle, lastEnd, submitted>>

\* await writeContract.registerEmail(...) throws (rejected in the wallet)
TxRejected(i) ==
    /\ UNCHANGED decryptVars
    /\ i \in DOMAIN calls
    /\ calls[i].pc = "send"
    /\ Finish(i, "threw")
    /\ UNCHANGED <<contractVars, fheVars, historyVars, codecVars, walletVars, myEmailHandle>>

\* the pending transaction is mined; tx.wait() resolves or throws
TxMined(i, gasOk) ==
    /\ UNCHANGED decryptVars
    /\ i \in DOMAIN calls
    /\ calls[i].pc = "wait"
    /\ registerEmail(calls[i].user, calls[i].h, gasOk)
    /\ IF afterReceipt(succeeds(calls[i].user, calls[i].h, gasOk)) = "refetch"
       THEN /\ calls' = [calls EXCEPT ![i].pc = "refetch"]
            /\ message' = "Email registration updated!"
            /\ UNCHANGED <<isProcessing, lastEnd, submitted>>
       ELSE Finish(i, "threw")
    /\ UNCHANGED <<inputs, historyVars, codecVars, walletVars, renderedIsProcessing, myEmailHandle>>

\* await refreshMyEmailHandle() resolves: encryptedEmailOf(accounts[0]) is read
RefetchDone(i) ==
    /\ i \in DOMAIN calls
    /\ calls[i].pc = "refetch"
    /\ myEmailHandle' = encryptedEmailOf(account)
    /\ decryptedEmail' = watchDecryption(encryptedEmailOf(account), results, decryptedEmail)
    /\ UNCHANGED <<results, decrypting>>
    /\ Finish(i, "ok")
    /\ UNCHANGED <<contractVars, fheVars, historyVars, codecVars, walletVars>>

\* useReadContract(encryptedEmailOf, accounts[0]) returns data; the effect on
\* isRegistered then sets submitted
ReadContract ==
    /\ hasSigner
    /\ myEmailHandle # encryptedEmailOf(account)
    /\ myEmailHandle' = encryptedEmailOf(account)
    /\ submitted' = (submitted \/ isRegistered(encryptedEmailOf(account)))
    /\ decryptedEmail' = watchDecryption(encryptedEmailOf(account), results, decryptedEmail)
    /\ UNCHANGED <<results, decrypting>>
    /\ UNCHANGED <<contractVars, fheVars, historyVars, codecVars, walletVars,
                   isProcessing, renderedIsProcessing, message, lastEnd, calls>>

\* React re-renders: the closures capture the current state
Render ==
    /\ UNCHANGED decryptVars
    /\ renderedIsProcessing # isProcessing
    /\ renderedIsProcessing' = isProcessing
    /\ UNCHANGED <<contractVars, fheVars, historyVars, codecVars, walletVars,
                   isProcessing, message, myEmailHandle, lastEnd, submitted, calls>>

\* the FHE instance finishes loading
InstanceReady ==
    /\ UNCHANGED decryptVars
    /\ ~instance
    /\ instance' = TRUE
    /\ UNCHANGED <<contractVars, fheVars, historyVars, codecVars, account, hasSigner,
                   hookVars, submitted, calls>>

\* the wallet connects account a, or switches to it
WalletConnect(a) ==
    /\ UNCHANGED decryptVars
    /\ ~hasSigner \/ account # a
    /\ account' = a
    /\ hasSigner' = TRUE
    /\ message' = ""
    /\ myEmailHandle' = Undefined
    /\ UNCHANGED <<contractVars, fheVars, historyVars, codecVars, instance,
                   isProcessing, renderedIsProcessing, lastEnd, submitted, calls>>

\* the page is reloaded: a new session starts; a transaction already sent
\* stays on the network and is mined like any other caller's
Reload ==
    /\ account' = 1
    /\ hasSigner' = FALSE
    /\ instance' = FALSE
    /\ isProcessing' = FALSE
    /\ renderedIsProcessing' = FALSE
    /\ message' = ""
    /\ myEmailHandle' = Undefined
    /\ lastEnd' = "none"
    /\ submitted' = FALSE
    /\ calls' = <<>>
    /\ results' = NoResults
    /\ decrypting' = <<>>
    /\ decryptedEmail' = NoEmail
    /\ UNCHANGED <<contractVars, fheVars, historyVars, codecVars>>

\* ------------------------------------------------------------------ spec
ProgramInit ==
    /\ encryptedEmails = [a \in Addresses |-> ZeroHash]
    /\ registered = [a \in Addresses |-> FALSE]
    /\ totalRegistered = 0
    /\ inputs = <<>>
    /\ acl = {}
    /\ lastTx = [seq |-> 0, sender |-> Contract, handle |-> ZeroHash, status |-> "none"]
    /\ everCalled = [a \in Addresses |-> FALSE]
    /\ lastClear = [a \in Addresses |-> 0]
    /\ account = 1
    /\ hasSigner = FALSE
    /\ instance = FALSE
    /\ isProcessing = FALSE
    /\ renderedIsProcessing = FALSE
    /\ message = ""
    /\ myEmailHandle = Undefined
    /\ lastEnd = "none"
    /\ submitted = FALSE
    /\ results = NoResults
    /\ decrypting = <<>>
    /\ decryptedEmail = NoEmail
    /\ calls = <<>>

\* nothing typed into the form
CodecIdle ==
    /\ email = <<>>
    /\ error = FALSE
    /\ emailAsNumber = <<>>
    /\ emailStr = <<>>
    /\ codecPc = "typed"

Init == ProgramInit /\ CodecIdle

\* the contract and the accounts that call it directly
Next ==
    \/ \E u \in Addresses, c \in Clears : EncryptInput(u, c)
    \/ \E s \in Addresses, h \in Handles, g \in BOOLEAN : DirectRegisterEmail(s, h, g)

Spec == Init /\ [][Next]_vars

\* the browser client on top of the contract and its other callers
ClientNext ==
    \/ \E s \in Addresses, h \in Handles, g \in BOOLEAN : NetworkTx(s, h, g)
    \/ \E n \in Emails, abi \in Abis : handleSubmit(n, abi)
    \/ \E i \in 1..Len(calls) : EncryptDone(i)
    \/ \E i \in 1..Len(calls), how \in {"encUndefined", "threw"} : EncryptFail(i, how)
    \/ \E i \in 1..Len(calls) : TxSent(i)
    \/ \E i \in 1..Len(calls) : TxRejected(i)
    \/ \E i \in 1..Len(calls), g \in BOOLEAN : TxMined(i, g)
    \/ \E i \in 1..Len(calls) : RefetchDone(i)
    \/ Render
    \/ InstanceReady
    \/ \E a \in Addresses : WalletConnect(a)
    \/ ReadContract
    \/ Reload

ClientSpec == Init /\ [][ClientNext]_vars

\* the client with its decryption button
DecryptNext ==
    \/ ClientNext
    \/ handleDecrypt
    \/ DecryptDone

DecryptSpec == Init /\ [][DecryptNext]_vars

\* an awaited call of a run in flight settles: the encryption, the wallet,
\* the receipt or the refetch returns or throws
Settle ==
    \E i \in 1..Len(calls) :
        \/ EncryptDone(i)
        \/ \E how \in {"encUndefined", "threw"} : EncryptFail(i, how)
        \/ TxSent(i)
        \/ TxRejected(i)
        \/ \E g \in BOOLEAN : TxMined(i, g)
        \/ RefetchDone(i)

\* the client when every awaited call eventually settles
ClientFairSpec == Init /\ [][ClientNext]_vars /\ WF_vars(Settle)

\* ---------------------------------------------------------------- claims
AllParties == Addresses \cup {Contract}

\* a registerEmail transaction is mined in this step
TxStep == lastTx'.seq # lastTx.seq

\* a's decryption of the handle stored for a
decryptOwn(a) == userDecryptEuint(inputs, acl, encryptedEmailOf(a), a)

\* C1: the counter starts at 0, always equals the number of addresses whose
\* hasRegistered flag is true, and never decreases from one state to the next.
C1_CounterCountsRegistered ==
    /\ getTotalRegistered = 0
    /\ [](getTotalRegistered = Cardinality({a \in Addresses : hasRegistered(a)}))
    /\ [][getTotalRegistered' >= getTotalRegistered]_vars

C1_Witness ==
    /\ getTotalRegistered = 2
    /\ \A a \in Addresses : hasRegistered(a)
    /\ lastTx.status = "ok"

\* C2: a successful registerEmail call from an address whose flag is false
\* sets the flag and raises the counter by exactly one.
C2_FirstCallCounts ==
    [][\A a \in Addresses :
         (TxStep /\ lastTx'.sender = a /\ lastTx'.status = "ok" /\ ~hasRegistered(a))
             => (hasRegistered(a)' /\ getTotalRegistered' = getTotalRegistered + 1)]_vars

C2_Witness ==
    /\ lastTx.status = "ok"
    /\ hasRegistered(lastTx.sender)
    /\ getTotalRegistered = 1
    /\ Cardinality(acl) = 2

\* C3: a successful registerEmail call from an address whose flag is already
\* true leaves the counter unchanged and makes the stored handle the handle
\* submitted in that call.
C3_UpdateOverwrites ==
    [][\A a \in Addresses :
         (TxStep /\ lastTx'.sender = a /\ lastTx'.status = "ok" /\ hasRegistered(a))
             => (/\ getTotalRegistered' = getTotalRegistered
                 /\ encryptedEmailOf(a)' = lastTx'.handle)]_vars

C3_Witness ==
    \E a \in Addresses :
        /\ lastTx = [seq |-> 0, sender |-> a, handle |-> 2, status |-> "ok"]
        /\ <<1, a>> \in acl
        /\ <<2, a>> \in acl
        /\ encryptedEmailOf(a) = 2
        /\ getTotalRegistered = 1

\* C4 (as claimed): a registerEmail call from an address that has already
\* registered reverts and leaves handle, flag and counter unchanged.
C4_SecondCallReverts ==
    [][\A a \in Addresses :
         (TxStep /\ lastTx'.sender = a /\ hasRegistered(a))
             => (lastTx'.status = "reverted" /\ UNCHANGED contractVars)]_vars

\* C5: an address that never made a successful registerEmail call has its
\* flag false and the zero handle.
C5_NeverCalledIsEmpty ==
    \A a \in Addresses :
        ~everCalled[a] => (~hasRegistered(a) /\ encryptedEmailOf(a) = ZeroHash)

C5_Witness ==
    /\ lastTx.status = "reverted"
    /\ ~everCalled[lastTx.sender]
    /\ encryptedEmailOf(lastTx.sender) = ZeroHash
    /\ \E b \in Addresses : everCalled[b] /\ encryptedEmailOf(b) # ZeroHash

\* C6: for every registered address, decrypting its stored handle with its
\* own authorization yields the cleartext of its latest successful call.
C6_DecryptsLatest ==
    \A a \in Addresses : hasRegistered(a) => decryptOwn(a) = lastClear[a]

C6_Witness ==
    \E a \in Addresses :
        /\ hasRegistered(a)
        /\ <<1, a>> \in acl
        /\ <<2, a>> \in acl
        /\ inputs[1].clear # inputs[2].clear
        /\ decryptOwn(a) = lastClear[a]
        /\ lastClear[a] = inputs[lastTx.handle].clear

\* C7: a registerEmail call from a leaves the handle, the flag and the
\* decryption result of every other address unchanged.
C7_OthersUntouched ==
    [][\A a, b \in Addresses :
         (TxStep /\ lastTx'.sender = a /\ b # a)
             => (/\ encryptedEmailOf(b)' = encryptedEmailOf(b)
                 /\ hasRegistered(b)' = hasRegistered(b)
                 /\ decryptOwn(b)' = decryptOwn(b))]_vars

C7_Witness ==
    /\ \A a \in Addresses : hasRegistered(a) /\ decryptOwn(a) = lastClear[a]
    /\ encryptedEmailOf(1) # encryptedEmailOf(2)
    /\ lastClear[1] # lastClear[2]

\* C8: once hasRegistered(a) is true it stays true.
C8_FlagIsStable ==
    [][\A a \in Addresses : hasRegistered(a) => hasRegistered(a)']_vars

C8_Witness ==
    /\ lastTx.status = "reverted"
    /\ hasRegistered(lastTx.sender)
    /\ lastTx.seq = 0

\* C9: the handle stored for a registered address a is on the ACL for a and
\* for the contract, and for nobody else.
C9_OnlyOwnerAndContract ==
    \A a \in Addresses :
        hasRegistered(a) =>
            {w \in AllParties : <<encryptedEmailOf(a), w>> \in acl} = {a, Contract}

C9_Witness ==
    /\ \A a \in Addresses : hasRegistered(a)
    /\ Cardinality(acl) = 4

\* C10: at most one run of the hook's registerEmail is in flight.
C10_OneRegistrationInFlight == Len(calls) <= 1

C10_Witness ==
    /\ Len(calls) = 1
    /\ calls[1].pc = "wait"
    /\ ~submitted
    /\ isProcessing
    /\ renderedIsProcessing

\* C14: a registerEmail transaction that fails (its proof is not one for the
\* caller, or it reverts for another reason) leaves the stored handles, the
\* flags, the counter and the granted permissions as they were.
C14_FailedCallChangesNothing ==
    [][(TxStep /\ (\/ lastTx'.status = "reverted"
                   \/ inputs[lastTx'.handle].user # lastTx'.sender))
          => UNCHANGED <<contractVars, acl>>]_vars

C14_Witness ==
    /\ lastTx.status = "reverted"
    /\ inputs[lastTx.handle].user # lastTx.sender
    /\ getTotalRegistered = 1
    /\ ~hasRegistered(lastTx.sender)
    /\ Cardinality(acl) = 2

\* C15 (as claimed): the flag of an address is true exactly when its stored
\* handle is not the zero hash, and the client's isRegistered agrees with the
\* flag of the connected account in every state.
C15_ClientFlagAlwaysAgrees ==
    /\ \A a \in Addresses : hasRegistered(a) <=> encryptedEmailOf(a) # ZeroHash
    /\ isRegistered(myEmailHandle) <=> hasRegistered(account)

\* C15 (amended): the flag of an address is true exactly when its stored
\* handle is not the zero hash, and the client's isRegistered agrees with the
\* flag of the connected account whenever the handle the client holds is the
\* one now stored for that account.
C15_FlagIffHandle ==
    /\ \A a \in Addresses : hasRegistered(a) <=> encryptedEmailOf(a) # ZeroHash
    /\ myEmailHandle = encryptedEmailOf(account)
           => (isRegistered(myEmailHandle) <=> hasRegistered(account))

C15_Witness ==
    /\ hasSigner
    /\ myEmailHandle = encryptedEmailOf(account)
    /\ isRegistered(myEmailHandle)
    /\ hasRegistered(account)
    /\ \E b \in Addresses : ~hasRegistered(b) /\ encryptedEmailOf(b) = ZeroHash

\* the run of registerEmail in flight, if any, before and after a step
Running == DOMAIN calls \cap DOMAIN calls'

\* a run of registerEmail ends in this step without a confirmed transaction
FailedEnd ==
    /\ lastEnd' \in Failures
    /\ lastEnd' # lastEnd \/ Len(calls') < Len(calls)

\* C11: a submit action encrypts at most once and sends at most one
\* transaction; encryptions happen only for a run in flight; a run that fails
\* ends with a non-empty message and leaves no run behind.
C11_NoRetry ==
    [][/\ \A i \in DOMAIN calls' : calls'[i].encs <= 1 /\ calls'[i].txs <= 1
       /\ Len(inputs') > Len(inputs) =>
              \E i \in DOMAIN calls : calls[i].pc = "encrypt" /\ calls[i].encs = 0
       /\ \A i \in Running : calls'[i].txs > calls[i].txs =>
              (calls[i].pc = "send" /\ calls[i].txs = 0)
       /\ FailedEnd => (message' # "" /\ calls' = <<>>)]_vars

C11_Witness ==
    /\ lastEnd = "threw"
    /\ message = "registerEmail() failed"
    /\ calls = <<>>
    /\ ~isProcessing
    /\ Len(inputs) = 1
    /\ acl = {}

\* C13: a run sends its transaction only after the encryption returned a
\* ciphertext, waits for the receipt only after sending, and refetches the
\* handle and reports the update only after a receipt of a successful
\* transaction; a run that failed does not refetch.
C13_StepsInOrder ==
    [][/\ \A i \in Running :
            /\ calls'[i].pc = "send" =>
                   \/ calls[i].pc = "send"
                   \/ /\ calls[i].pc = "encrypt"
                      /\ calls'[i].h \in 1..Len(inputs')
                      /\ inputs'[calls'[i].h] = [clear |-> calls[i].n, user |-> calls[i].user]
            /\ calls'[i].pc = "wait" => calls[i].pc \in {"send", "wait"}
            /\ calls'[i].pc = "refetch" =>
                   \/ calls[i].pc = "refetch"
                   \/ /\ calls[i].pc = "wait"
                      /\ encryptedEmailOf(calls[i].user)' = calls[i].h
                      /\ <<calls[i].h, calls[i].user>> \in acl'
       /\ (message' = "Email registration updated!" /\ message # message') =>
              \E i \in Running : calls[i].pc = "wait" /\ calls'[i].pc = "refetch"
       /\ (lastEnd' = "ok" /\ Len(calls') < Len(calls)) =>
              \E i \in DOMAIN calls : calls[i].pc = "refetch"
       /\ FailedEnd => myEmailHandle' = myEmailHandle]_vars

C13_Witness ==
    /\ lastEnd = "ok"
    /\ calls = <<>>
    /\ message = "Email registration updated!"
    /\ myEmailHandle = Len(inputs)
    /\ encryptedEmailOf(account) = myEmailHandle
    /\ isRegistered(myEmailHandle)

\* C16: isProcessing is never true without a run in flight, and whenever it
\* is true it becomes false again, given that awaited calls settle.
C16_ProcessingEnds ==
    /\ [](calls = <<>> => ~isProcessing)
    /\ isProcessing ~> ~isProcessing

C16_Witness ==
    /\ lastEnd \in Failures \cup {"ok"}
    /\ calls = <<>>
    /\ ~isProcessing
    /\ renderedIsProcessing

\* C17 (as claimed): the post-submission view is shown only when a
\* registration was confirmed in this session or the handle read from the
\* chain is not zero; a failed or skipped submit leaves the form visible.
C17_SubmittedOnlyWhenRegistered ==
    /\ submitted => (lastEnd = "ok" \/ isRegistered(myEmailHandle))
    /\ (lastEnd \in Failures \cup {"skipped"} /\ ~isRegistered(myEmailHandle)) => ~submitted

\* C12 (as claimed): the cleartext the hook exposes and the email the
\* component displays belong to the handle currently read from the chain.
C12_CleartextMatchesHandle ==
    /\ clear(myEmailHandle, results) \notin {Undefined, 0} =>
           clear(myEmailHandle, results) = inputs[myEmailHandle].clear
    /\ decryptedEmail # NoEmail =>
           /\ isRegistered(myEmailHandle)
           /\ results[myEmailHandle] # Undefined
           /\ decryptedEmail = inputs[myEmailHandle].clear

\* ------------------------------------------------- the email <-> integer codec
\* Strings are sequences of UTF-16 code units of the basic plane, byte
\* buffers are sequences of 0..255, hexadecimal text is a sequence of digits
\* 0..15, and a BigInt is its hexadecimal numeral without leading zeros
\* (zero is the empty numeral), so that no width is imposed by the model.
MaxTypedLen == 5
MaxPad == 28

\* NUL, BEL, space, '.', '@', 'a', e-acute
Chars == {0, 7, 32, 46, 64, 97, 233}
At == 64
Dot == 46
LetterA == 97
\* the width of the encrypted type euint256
EuintBits == 256

\* \s of the regular expression
isSpace(c) == c \in {9, 10, 11, 12, 13, 32, 160, 5760, 8232, 8233, 8239, 8287, 12288, 65279} \cup (8192..8202)

\* emailRegex.test(s) for /^[^\s@]+@[^\s@]+\.[^\s@]+$/
emailRegex(s) ==
    /\ \A i \in 1..Len(s) : ~isSpace(s[i])
    /\ \E i \in 2..Len(s) :
        /\ s[i] = At
        /\ \A j \in 1..Len(s) : s[j] = At => j = i
        /\ \E k \in (i + 2)..(Len(s) - 1) : s[k] = Dot

\* the UTF-8 bytes of one code unit; a surrogate standing alone is written
\* as U+FFFD
utf8Char(c) ==
    IF c < 128 THEN <<c>>
    ELSE IF c < 2048 THEN <<192 + (c \div 64), 128 + (c % 64)>>
    ELSE IF c \in 55296..57343 THEN <<239, 191, 189>>
    ELSE <<224 + (c \div 4096), 128 + ((c \div 64) % 64), 128 + (c % 64)>>

\* Buffer.from(s, "utf-8")
RECURSIVE bufferFromUtf8(_)
bufferFromUtf8(s) ==
    IF s = <<>> THEN <<>> ELSE utf8Char(Head(s)) \o bufferFromUtf8(Tail(s))

\* buf.toString("hex"): two digits per byte
toStringHex(buf) ==
    [i \in 1..(2 * Len(buf)) |->
        IF i % 2 = 1 THEN buf[(i + 1) \div 2] \div 16 ELSE buf[i \div 2] % 16]

\* BigInt("0x" + hex): the value of the numeral, leading zeros carry none
RECURSIVE BigInt(_)
BigInt(hex) ==
    IF hex # <<>> /\ Head(hex) = 0 THEN BigInt(Tail(hex)) ELSE hex

\* n.toString(16)
toString16(n) == IF n = <<>> THEN <<0>> ELSE n

\* if (hex.length % 2) hex = "0" + hex
padEven(hex) == IF Len(hex) % 2 = 1 THEN <<0>> \o hex ELSE hex

\* Buffer.from(hex, "hex") for hex of even length
bufferFromHex(hex) ==
    [i \in 1..(Len(hex) \div 2) |-> 16 * hex[2 * i - 1] + hex[2 * i]]

isCont(buf, i) == i <= Len(buf) /\ buf[i] \in 128..191

\* buf.toString("utf-8"): an ill-formed byte is read as U+FFFD
RECURSIVE toStringUtf8(_)
toStringUtf8(buf) ==
    IF buf = <<>> THEN <<>>
    ELSE LET b == buf[1]
             two == (b - 192) * 64 + (buf[2] - 128)
             three == (b - 224) * 4096 + (buf[2] - 128) * 64 + (buf[3] - 128)
         IN  IF b < 128 THEN <<b>> \o toStringUtf8(Tail(buf))
             ELSE IF b \in 194..223 /\ isCont(buf, 2)
                  THEN <<two>> \o toStringUtf8(SubSeq(buf, 3, Len(buf)))
             ELSE IF /\ b \in 224..239 /\ isCont(buf, 2) /\ isCont(buf, 3)
                     /\ three >= 2048 /\ three \notin 55296..57343
                  THEN <<three>> \o toStringUtf8(SubSeq(buf, 4, Len(buf)))
             ELSE <<65533>> \o toStringUtf8(Tail(buf))

\* handleSubmit's conversion and the decryption effect's conversion
encodeEmail(s) == BigInt(toStringHex(bufferFromUtf8(s)))
decodeEmail(n) == toStringUtf8(bufferFromHex(padEven(toString16(n))))

\* the integer is below 2^EuintBits
fitsEuint256(n) == 4 * Len(n) <= EuintBits

\* the texts typed into the form: anything short, possibly after a run of 'a'
PadLens == {0, MaxPad - 1, MaxPad}
Typed ==
    {[i \in 1..k |-> LetterA] \o s :
        k \in PadLens, s \in UNION {[1..n -> Chars] : n \in 0..MaxTypedLen}}

\* handleSubmit up to the call of the hook: the text is refused, or encoded
SubmitInvalid ==
    /\ codecPc = "typed"
    /\ ~emailRegex(email)
    /\ error' = TRUE
    /\ codecPc' = "refused"
    /\ UNCHANGED <<email, emailAsNumber, emailStr>>
    /\ UNCHANGED <<contractVars, fheVars, historyVars, clientVars>>

SubmitValid ==
    /\ codecPc = "typed"
    /\ emailRegex(email)
    /\ error' = FALSE
    /\ emailAsNumber' = encodeEmail(email)
    /\ codecPc' = "encoded"
    /\ UNCHANGED <<email, emailStr>>
    /\ UNCHANGED <<contractVars, fheVars, historyVars, clientVars>>

\* the decryption effect run on that integer: if (isDecrypted && clear)
DecodeClear ==
    /\ codecPc = "encoded"
    /\ emailAsNumber # <<>>
    /\ emailStr' = decodeEmail(emailAsNumber)
    /\ codecPc' = "decoded"
    /\ UNCHANGED <<email, error, emailAsNumber>>
    /\ UNCHANGED <<contractVars, fheVars, historyVars, clientVars>>

EncodeInit ==
    /\ ProgramInit
    /\ email \in Typed
    /\ error = FALSE
    /\ emailAsNumber = <<>>
    /\ emailStr = <<>>
    /\ codecPc = "typed"

EncodeNext ==
    \/ SubmitInvalid
    \/ SubmitValid
    \/ DecodeClear

EncodeSpec == EncodeInit /\ [][EncodeNext]_vars

\* C18 (as claimed): every text the form accepts is encoded as an integer
\* below 2^256, and decoding that integer gives the text back.
C18_EncodingRoundTrips ==
    codecPc \in {"encoded", "decoded"} =>
        /\ fitsEuint256(emailAsNumber)
        /\ codecPc = "decoded" => emailStr = email

====
